---- MODULE Spec2Model ----
(***************************************************************************)
(* Cart routes of the e-commerce backend (server.js): the per-user cart    *)
(* stored in the User document, the Product collection it is checked       *)
(* against, and the catalog routes that change products.                   *)
(*                                                                         *)
(* Spec serves the requests one at a time: every handler is one action.    *)
(* SpecRace lets requests overlap: a cart handler runs there in two atomic *)
(* segments separated by its awaits, the reads (User.findById,             *)
(* Product.findById) with the synchronous code that follows them, and      *)
(* user.save() with the populate and the response.                         *)
(*                                                                         *)
(* Quantities and stock are counted in halves (Whole), so that a request   *)
(* can carry a number that is not an integer. Requests come with the token *)
(* of a user that has a document or of one that has none (Ghost), and with *)
(* productId strings that cast to an ObjectId or do not (BadIds).          *)
(*                                                                         *)
(* SpecAuth puts protect and authorizeAdmin in front of the routes,        *)
(* SpecSeed runs the two invocations of seedProducts that start-up makes,  *)
(* SpecClient is the browser client (App.jsx) with its requests and        *)
(* responses under way, and SpecCheckout is its checkout page.             *)
(***************************************************************************)
EXTENDS Integers, Sequences, FiniteSets, TLC

VARIABLES products, carts, pending, resp, scn, gate, seed, client, net, checkout

vars == <<products, carts, pending, resp, scn, gate, seed, client, net, checkout>>

\* the server's stored state and its last answer
server == <<products, carts, pending, resp, scn>>

\* the state of the parts that Spec and SpecRace leave alone: the middleware
\* in front of the routes, the seeding at start-up, and the browser client
ext == <<gate, seed, client, net, checkout>>

(* ---------------------------- bounds ----------------------------------- *)

\* Longest cart the model lets a request build.
MaxCartLen == 2

\* Number of cart requests that may be between their reads and their save.
MaxInFlight == 2

\* requests and responses of one browser client that are under way at a time
MaxRequests == 2

(* ---------------------------- domains ---------------------------------- *)

Users == {"u1", "u2"}

\* the id in a token that was signed before the users were seeded again: no
\* User document has it
Ghost == "u0"

\* ObjectIds of the seeded products, written as their canonical hex string.
Products == {"p1", "p2"}

\* ObjectIds: those of the seeded products, one that no product ever had, and
\* the one the next created product gets
ObjectIds == Products \cup {"p3", "p4"}

\* productId strings a request may carry that cast to an ObjectId: the
\* canonical hex strings and an upper-case spelling of p1's hex string.
IdStrings == {"p1", "P1", "p2", "p3"}

\* productId strings a request may carry that do not cast to an ObjectId
BadIds == {"zz"}

CartOps == {"get", "add", "update", "remove", "clear"}

\* A quantity is a JSON number and the schema stores it as a Number. The
\* model counts quantities and stock in halves, so that a request can carry a
\* number that is not an integer: Whole(n) is the number n, Whole(n) + 1 is
\* n + 1/2.
Whole(n) == n + n

IsWhole(x) == x % 2 = 0

\* quantity values a request body may carry: 0, 2, 3, 5, and -1, 1/2, 3/2.
ReqQty == {Whole(0), Whole(2), Whole(3), Whole(5)}
            \cup {Whole(0 - 1), Whole(0) + 1, Whole(1) + 1}

\* the second user sends a narrower set of requests
IdsOf(u) ==
    IF u = "u1" THEN {"p1", "P1", "p2"}
    ELSE IF u = "u2" THEN {"p2", "p3", "zz"}
    ELSE {"p2"}

QtyOf(u) ==
    IF u = "u1" THEN {Whole(0), Whole(2), Whole(3), Whole(5)}
    ELSE IF u = "u2"
         THEN {Whole(0), Whole(2), Whole(0 - 1), Whole(0) + 1, Whole(1) + 1}
    ELSE {Whole(0 - 1), Whole(2)}

\* catalog requests the model issues: stock changes of p1, removal of p2
PutRequests == {<<"p1", Whole(2)>>, <<"p1", Whole(5)>>}

DeleteRequests == {"p2"}

\* the product a POST /api/products creates: its new id and its stock
CreateRequests == {<<"p4", Whole(2)>>}

\* requests the model lets overlap
RaceUsers == {"u1", "u2"}

RaceIds == {"p1"}

RaceQty == {Whole(0), Whole(2), Whole(3)}

\* the second user's overlapping requests are adds of 3
RaceQtyOf(u) == IF u = "u1" THEN RaceQty ELSE {Whole(3)}

Slots == 1 .. MaxInFlight

(* ------------------------ ObjectId conversions ------------------------- *)

\* Mongoose casts a hex string to an ObjectId; hex digits are read in either
\* case.
CastId(s) == IF s = "P1" THEN "p1" ELSE s

\* ObjectId.prototype.toString(): the lower-case hex string.
ToHexString(oid) == oid

(* ----------------------------- helpers --------------------------------- *)

NoBody == << >>

\* the changes a loaded user document tracks for its save(): nothing, a
\* $push of the last item, a $set of the quantities at idxs, or a $set of
\* the whole array
NoDelta == [kind |-> "none", cart |-> << >>, idxs |-> {}]

Idle == [op |-> "idle", user |-> "-", delta |-> NoDelta, stale |-> FALSE]

\* indices of the cart items whose productId.toString() equals the string
Matching(cart, pid) == {i \in DOMAIN cart : ToHexString(cart[i].productId) = pid}

\* Array.prototype.findIndex: first matching index, 0 for -1
FindIndex(cart, pid) ==
    IF Matching(cart, pid) = {} THEN 0
    ELSE CHOOSE i \in Matching(cart, pid) : \A j \in Matching(cart, pid) : i <= j

\* Array.prototype.splice(i, 1)
Splice(cart, i) ==
    [j \in 1 .. (Len(cart) - 1) |-> IF j < i THEN cart[j] ELSE cart[j + 1]]

\* Array.prototype.filter(item => item.productId.toString() !== productId)
RECURSIVE Filter(_, _)
Filter(cart, pid) ==
    IF cart = << >> THEN << >>
    ELSE IF ToHexString(Head(cart).productId) = pid THEN Filter(Tail(cart), pid)
         ELSE <<Head(cart)>> \o Filter(Tail(cart), pid)

\* populate('cart.productId'): a line whose product is gone gets null
Populate(cart, prods) ==
    [i \in DOMAIN cart |->
        [product |-> IF prods[cart[i].productId].exists
                     THEN cart[i].productId ELSE "null",
         quantity |-> cart[i].quantity]]

Failed(status) == [status |-> status, delta |-> NoDelta]

Loaded(kind, cart, idxs) ==
    [status |-> "OK", delta |-> [kind |-> kind, cart |-> cart, idxs |-> idxs]]

(* ------------------------- POST /api/cart/add -------------------------- *)

\* the sum of the quantities of the cart's lines for product p
RECURSIVE Held(_, _)
Held(cart, p) ==
    IF cart = << >> THEN 0
    ELSE (IF Head(cart).productId = p THEN Head(cart).quantity ELSE 0)
         + Held(Tail(cart), p)

\* AddThrows that counts what every user's cart holds of the product against
\* the stock
AddThrows_Reserved(cart, pid, q, stock) ==
    \/ stock < q + Held(cart, CastId(pid))
    \/ \E v \in DOMAIN carts : stock < q + Held(carts[v], CastId(pid))

\* AddThrows with the stock comparisons written <= instead of <
AddThrows_OffByOne(cart, pid, q, stock) ==
    IF Matching(cart, pid) # {}
    THEN \E i \in Matching(cart, pid) : stock <= cart[i].quantity + q
    ELSE stock <= q

\* the map callback throws for some matching item, or the new-item check does
AddThrows(cart, pid, q, stock) ==
    IF Matching(cart, pid) # {}
    THEN \E i \in Matching(cart, pid) : stock < cart[i].quantity + q
    ELSE stock < q

\* AddCart that puts a new line in front of the others
AddCart_Prepend(cart, pid, q) ==
    IF Matching(cart, pid) # {}
    THEN [i \in DOMAIN cart |->
            IF i \in Matching(cart, pid)
            THEN [cart[i] EXCEPT !.quantity = @ + q] ELSE cart[i]]
    ELSE <<[productId |-> CastId(pid), quantity |-> q]>> \o cart

\* user.cart after the map and the push
AddCart(cart, pid, q) ==
    IF Matching(cart, pid) # {}
    THEN [i \in DOMAIN cart |->
            IF i \in Matching(cart, pid)
            THEN [cart[i] EXCEPT !.quantity = @ + q] ELSE cart[i]]
    ELSE Append(cart, [productId |-> CastId(pid), quantity |-> q])

\* AddLoad that looks the product up before it checks the quantity
AddLoad_LookupFirst(cart, prods, pid, q) ==
    IF pid \in BadIds THEN Failed("Internal")
    ELSE IF ~prods[CastId(pid)].exists THEN Failed("NotFound")
    ELSE IF q <= 0 THEN Failed("InvalidArgument")
    ELSE IF AddThrows(cart, pid, q, prods[CastId(pid)].stock)
         THEN Failed("InsufficientStock")
    ELSE IF Matching(cart, pid) # {}
         THEN Loaded("setq", AddCart(cart, pid, q), Matching(cart, pid))
    ELSE Loaded("push", AddCart(cart, pid, q), {})

\* the handler up to user.save(), for a user that has a document: the error it
\* answers with (a string that does not cast makes Product.findById throw), or
\* the document it goes on to save
AddLoad(cart, prods, pid, q) ==
    IF q <= 0 THEN Failed("InvalidArgument")
    ELSE IF pid \in BadIds THEN Failed("Internal")
    ELSE IF ~prods[CastId(pid)].exists THEN Failed("NotFound")
    ELSE IF AddThrows(cart, pid, q, prods[CastId(pid)].stock)
         THEN Failed("InsufficientStock")
    ELSE IF Matching(cart, pid) # {}
         THEN Loaded("setq", AddCart(cart, pid, q), Matching(cart, pid))
    ELSE Loaded("push", AddCart(cart, pid, q), {})

(* ------------------- PUT /api/cart/update/:productId ------------------- *)

\* UpdateLoad that adds the line when the cart has none for the product
UpdateLoad_Upsert(cart, prods, pid, q) ==
    IF q < 0 THEN Failed("InvalidArgument")
    ELSE IF pid \in BadIds THEN Failed("NotFound")
    ELSE IF ~prods[CastId(pid)].exists THEN Failed("NotFound")
    ELSE IF FindIndex(cart, pid) = 0
         THEN IF q = 0 \/ prods[CastId(pid)].stock < q
              THEN Failed("NotFound")
              ELSE Loaded("push",
                          Append(cart, [productId |-> CastId(pid), quantity |-> q]),
                          {})
    ELSE IF q = 0 THEN Loaded("setall", Splice(cart, FindIndex(cart, pid)), {})
    ELSE IF prods[CastId(pid)].stock < q THEN Failed("InsufficientStock")
    ELSE IF cart[FindIndex(cart, pid)].quantity = q THEN Loaded("none", cart, {})
    ELSE Loaded("setq", [cart EXCEPT ![FindIndex(cart, pid)].quantity = q],
                {FindIndex(cart, pid)})

\* UpdateLoad without the branch that removes the line on quantity 0
UpdateLoad_KeepZero(cart, prods, pid, q) ==
    IF q < 0 THEN Failed("InvalidArgument")
    ELSE IF FindIndex(cart, pid) = 0 THEN Failed("NotFound")
    ELSE IF ~prods[CastId(pid)].exists THEN Failed("NotFound")
    ELSE IF prods[CastId(pid)].stock < q THEN Failed("InsufficientStock")
    ELSE IF cart[FindIndex(cart, pid)].quantity = q THEN Loaded("none", cart, {})
    ELSE Loaded("setq", [cart EXCEPT ![FindIndex(cart, pid)].quantity = q],
                {FindIndex(cart, pid)})

\* UpdateLoad that removes the line on quantity 0 before it looks the product
\* up
UpdateLoad_ZeroFirst(cart, prods, pid, q) ==
    IF q < 0 THEN Failed("InvalidArgument")
    ELSE IF FindIndex(cart, pid) = 0 THEN Failed("NotFound")
    ELSE IF q = 0 THEN Loaded("setall", Splice(cart, FindIndex(cart, pid)), {})
    ELSE IF ~prods[CastId(pid)].exists THEN Failed("NotFound")
    ELSE IF prods[CastId(pid)].stock < q THEN Failed("InsufficientStock")
    ELSE IF cart[FindIndex(cart, pid)].quantity = q THEN Loaded("none", cart, {})
    ELSE Loaded("setq", [cart EXCEPT ![FindIndex(cart, pid)].quantity = q],
                {FindIndex(cart, pid)})

UpdateLoad(cart, prods, pid, q) ==
    IF q < 0 THEN Failed("InvalidArgument")
    ELSE IF FindIndex(cart, pid) = 0 THEN Failed("NotFound")
    ELSE IF ~prods[CastId(pid)].exists THEN Failed("NotFound")
    ELSE IF q = 0 THEN Loaded("setall", Splice(cart, FindIndex(cart, pid)), {})
    ELSE IF prods[CastId(pid)].stock < q THEN Failed("InsufficientStock")
    ELSE IF cart[FindIndex(cart, pid)].quantity = q THEN Loaded("none", cart, {})
    ELSE Loaded("setq", [cart EXCEPT ![FindIndex(cart, pid)].quantity = q],
                {FindIndex(cart, pid)})

(* ----------------- DELETE /api/cart/remove/:productId ------------------ *)

\* RemoveLoad that answers NotFound when the cart has no such line
RemoveLoad_Strict(cart, pid) ==
    IF Filter(cart, pid) = cart THEN Failed("NotFound")
    ELSE Loaded("setall", Filter(cart, pid), {})

RemoveLoad(cart, pid) ==
    IF Filter(cart, pid) = cart THEN Loaded("none", cart, {})
    ELSE Loaded("setall", Filter(cart, pid), {})

(* ----------------------- DELETE /api/cart/clear ------------------------ *)

\* ClearLoad that never assigns the empty array
ClearLoad_Keep(cart) == Loaded("none", cart, {})

ClearLoad(cart) ==
    IF cart = << >> THEN Loaded("none", << >>, {})
    ELSE Loaded("setall", << >>, {})

(* ----------------------------- user.save() ----------------------------- *)

\* the validators save() runs on the document: quantity has min 1
Validate(cart) == \A i \in DOMAIN cart : cart[i].quantity >= Whole(1)

\* Save that writes the whole document over the stored one
Save_Overwrite(stored, stale, delta) ==
    IF delta.kind # "none" /\ ~Validate(delta.cart)
    THEN [status |-> "Internal", cart |-> stored, bump |-> FALSE]
    ELSE [status |-> "OK", cart |-> delta.cart, bump |-> FALSE]

\* save() of a loaded document against the stored cart: stale says that the
\* stored version key is no longer the one the document was loaded with.
\* bump says that the save moved the version key.
Save(stored, stale, delta) ==
    CASE delta.kind # "none" /\ ~Validate(delta.cart) ->
            [status |-> "Internal", cart |-> stored, bump |-> FALSE]
      [] delta.kind = "none" ->
            [status |-> "OK", cart |-> stored, bump |-> FALSE]
      [] delta.kind = "push" ->
            [status |-> "OK",
             cart |-> Append(stored, delta.cart[Len(delta.cart)]),
             bump |-> TRUE]
      [] delta.kind = "setq" /\ ~stale ->
            [status |-> "OK",
             cart |-> [i \in DOMAIN stored |->
                          IF i \in delta.idxs
                          THEN [stored[i] EXCEPT !.quantity = delta.cart[i].quantity]
                          ELSE stored[i]],
             bump |-> FALSE]
      [] delta.kind = "setall" /\ ~stale ->
            [status |-> "OK", cart |-> delta.cart, bump |-> TRUE]
      [] OTHER ->
            [status |-> "Internal", cart |-> stored, bump |-> FALSE]

\* what the handler answers after the save: the document's own cart,
\* populated; clear answers with a message only
Answer(op, status, delta, prods) ==
    [op |-> op, status |-> status,
     body |-> IF status = "OK" /\ op # "clear"
              THEN Populate(delta.cart, prods) ELSE NoBody]

\* a whole handler run with no other request in between
Handle(op, cart, prods, load) ==
    IF load.status # "OK"
    THEN [cart |-> cart, resp |-> Answer(op, load.status, load.delta, prods)]
    ELSE [cart |-> Save(cart, FALSE, load.delta).cart,
          resp |-> Answer(op, Save(cart, FALSE, load.delta).status,
                          load.delta, prods)]

AddToCart(cart, prods, pid, q) == Handle("add", cart, prods, AddLoad(cart, prods, pid, q))

UpdateQuantity(cart, prods, pid, q) ==
    Handle("update", cart, prods, UpdateLoad(cart, prods, pid, q))

RemoveFromCart(cart, prods, pid) == Handle("remove", cart, prods, RemoveLoad(cart, pid))

ClearCart(cart, prods) == Handle("clear", cart, prods, ClearLoad(cart))

\* GetCart that drops the lines whose product is gone and stores the result
GetCart_Prune(cart, prods) ==
    [cart |-> SelectSeq(cart, LAMBDA l : prods[l.productId].exists),
     resp |-> [op |-> "get", status |-> "OK",
               body |-> Populate(SelectSeq(cart, LAMBDA l : prods[l.productId].exists),
                                 prods)]]

GetCart(cart, prods) ==
    [cart |-> cart,
     resp |-> [op |-> "get", status |-> "OK", body |-> Populate(cart, prods)]]

(* ------------------ the scripted client of the scenario ----------------- *)

\* position of a client that sends add(p1,3), add(p1,3), update(p1,5),
\* update(p1,0) for u1, one after the other, starting with u1's cart empty
\* and 5 of p1 in stock; 0 when the last request served was not the next one
\* of the script
Script(op, u, pid, q) ==
    IF u # "u1" \/ pid # "p1" THEN 0
    ELSE IF op = "add" /\ q = Whole(3) /\ carts["u1"] = << >>
            /\ products["p1"].exists /\ products["p1"].stock = Whole(5) THEN 1
    ELSE IF op = "add" /\ q = Whole(3) /\ scn = 1 THEN 2
    ELSE IF op = "update" /\ q = Whole(5) /\ scn = 2 THEN 3
    ELSE IF op = "update" /\ q = 0 /\ scn = 3 THEN 4
    ELSE 0

(* ----------------- requests served one at a time (Spec) ---------------- *)

\* a response that ends the request with nothing written
Refuse(op, status) ==
    /\ resp' = [op |-> op, status |-> status, body |-> NoBody]
    /\ scn' = 0
    /\ UNCHANGED <<products, carts, pending>>

\* Serve that takes the quantities of the saved cart out of the stock
Serve_Decrement(u, valid, op, r) ==
    IF valid /\ u \notin DOMAIN carts
    THEN /\ resp' = [op |-> op, status |-> "NotFound", body |-> NoBody]
         /\ UNCHANGED <<products, carts, pending>>
    ELSE /\ Len(r.cart) <= MaxCartLen
         /\ carts' = IF u \in DOMAIN carts
                     THEN [carts EXCEPT ![u] = r.cart] ELSE carts
         /\ resp' = r.resp
         /\ products' = [p \in DOMAIN products |->
               IF r.resp.status = "OK" /\ op = "add"
                  /\ \E i \in DOMAIN r.cart : r.cart[i].productId = p
               THEN [products[p] EXCEPT !.stock = 0] ELSE products[p]]
         /\ UNCHANGED pending

\* User.findById(req.user.id): the handler answers 404 when there is no such
\* document and goes on with the document's cart otherwise; add and update
\* check the quantity before it (valid)
Serve(u, valid, op, r) ==
    IF valid /\ u \notin DOMAIN carts
    THEN /\ resp' = [op |-> op, status |-> "NotFound", body |-> NoBody]
         /\ UNCHANGED <<products, carts, pending>>
    ELSE /\ Len(r.cart) <= MaxCartLen
         /\ carts' = IF u \in DOMAIN carts
                     THEN [carts EXCEPT ![u] = r.cart] ELSE carts
         /\ resp' = r.resp
         /\ UNCHANGED <<products, pending>>

\* the cart of the document User.findById returns
CartOf(u) == IF u \in DOMAIN carts THEN carts[u] ELSE << >>

CartGet(u) ==
    /\ Serve(u, TRUE, "get", GetCart(CartOf(u), products))
    /\ scn' = 0

CartAdd(u, pid, q) ==
    /\ Serve(u, q > 0, "add", AddToCart(CartOf(u), products, pid, q))
    /\ scn' = Script("add", u, pid, q)

CartUpdate(u, pid, q) ==
    /\ Serve(u, q >= 0, "update", UpdateQuantity(CartOf(u), products, pid, q))
    /\ scn' = Script("update", u, pid, q)

CartRemove(u, pid) ==
    /\ Serve(u, TRUE, "remove", RemoveFromCart(CartOf(u), products, pid))
    /\ scn' = 0

CartClear(u) ==
    /\ Serve(u, TRUE, "clear", ClearCart(CartOf(u), products))
    /\ scn' = 0

\* add or update with no quantity in the body: quantity === undefined
NoQuantity(op) == Refuse(op, "InvalidArgument")

\* protect: no Authorization header, not a Bearer one, or a token that
\* jwt.verify rejects
Unauthenticated(op) == Refuse(op, "Unauthenticated")

\* an await of the handler before its write rejects (the database cannot be
\* reached): the catch block answers 500
StorageFailure(op) == Refuse(op, "Internal")

\* user.populate rejects after user.save() has written: the catch block
\* answers 500
PopulateFails(u, op, r) ==
    /\ r.resp.status = "OK"
    /\ Len(r.cart) <= MaxCartLen
    /\ carts' = [carts EXCEPT ![u] = r.cart]
    /\ resp' = [op |-> op, status |-> "Internal", body |-> NoBody]
    /\ scn' = 0
    /\ UNCHANGED <<products, pending>>

(* --------------------------- catalog routes ---------------------------- *)

CatalogAnswer(op, found) ==
    [op |-> op, status |-> IF found THEN "OK" ELSE "NotFound", body |-> NoBody]

\* POST /api/products with the required fields: the new document gets an id
\* that no document had
ProductCreate(p, stock) ==
    /\ ~products[p].exists
    /\ products' = [products EXCEPT ![p] = [exists |-> TRUE, stock |-> stock]]
    /\ resp' = CatalogAnswer("productCreate", TRUE)
    /\ scn' = 0
    /\ UNCHANGED <<carts, pending>>

\* ProductPut that cuts the lines of every cart down to the new stock
ProductPut_Revalidate(p, stock) ==
    /\ products' = IF products[p].exists
                   THEN [products EXCEPT ![p].stock = stock] ELSE products
    /\ resp' = CatalogAnswer("productPut", products[p].exists)
    /\ scn' = 0
    /\ carts' = [u \in DOMAIN carts |->
          [i \in DOMAIN carts[u] |->
              IF carts[u][i].productId = p /\ carts[u][i].quantity > stock
              THEN [carts[u][i] EXCEPT !.quantity = stock] ELSE carts[u][i]]]
    /\ UNCHANGED pending

\* PUT /api/products/:id with a stock field
ProductPut(p, stock) ==
    /\ products' = IF products[p].exists
                   THEN [products EXCEPT ![p].stock = stock] ELSE products
    /\ resp' = CatalogAnswer("productPut", products[p].exists)
    /\ scn' = 0
    /\ UNCHANGED <<carts, pending>>

\* DELETE /api/products/:id
ProductDelete(p) ==
    /\ products' = [products EXCEPT ![p].exists = FALSE]
    /\ resp' = CatalogAnswer("productDelete", products[p].exists)
    /\ scn' = 0
    /\ UNCHANGED <<carts, pending>>

(* ------------------- overlapping requests (SpecRace) ------------------- *)

FreeSlots == {s \in Slots : pending[s].op = "idle"}

FirstFree == CHOOSE s \in FreeSlots : \A t \in FreeSlots : s <= t

\* the handler's first segment: it answers with its error, or holds the
\* loaded document until its save
Begin(op, u, load) ==
    /\ scn' = 0
    /\ UNCHANGED <<products, carts>>
    /\ IF load.status # "OK"
       THEN /\ resp' = Answer(op, load.status, load.delta, products)
            /\ UNCHANGED pending
       ELSE /\ FreeSlots # {}
            /\ Len(load.delta.cart) <= MaxCartLen
            /\ pending' = [pending EXCEPT ![FirstFree] =
                  [op |-> op, user |-> u, delta |-> load.delta, stale |-> FALSE]]
            /\ UNCHANGED resp

BeginAdd(u, pid, q) == Begin("add", u, AddLoad(carts[u], products, pid, q))

BeginUpdate(u, pid, q) == Begin("update", u, UpdateLoad(carts[u], products, pid, q))

BeginRemove(u, pid) == Begin("remove", u, RemoveLoad(carts[u], pid))

BeginClear(u) == Begin("clear", u, ClearLoad(carts[u]))

\* UserSave that writes the saved cart to every user's document
UserSave_AllUsers(s) ==
    LET p == pending[s]
        r == Save(carts[p.user], p.stale, p.delta)
    IN  /\ p.op # "idle"
        /\ Len(r.cart) <= MaxCartLen
        /\ carts' = [v \in Users |-> r.cart]
        /\ pending' = [t \in Slots |->
              IF t = s THEN Idle
              ELSE IF r.bump /\ pending[t].user = p.user
                   THEN [pending[t] EXCEPT !.stale = TRUE]
              ELSE pending[t]]
        /\ resp' = Answer(p.op, r.status, p.delta, products)
        /\ scn' = 0
        /\ UNCHANGED products

\* the handler's second segment: user.save(), populate, res.json
UserSave(s) ==
    LET p == pending[s]
        r == Save(carts[p.user], p.stale, p.delta)
    IN  /\ p.op # "idle"
        /\ Len(r.cart) <= MaxCartLen
        /\ carts' = [carts EXCEPT ![p.user] = r.cart]
        /\ pending' = [t \in Slots |->
              IF t = s THEN Idle
              ELSE IF r.bump /\ pending[t].user = p.user
                   THEN [pending[t] EXCEPT !.stale = TRUE]
              ELSE pending[t]]
        /\ resp' = Answer(p.op, r.status, p.delta, products)
        /\ scn' = 0
        /\ UNCHANGED products

(* ---------------------------- specification ---------------------------- *)

\* the stored state after seeding, with no request made yet
ServerInit ==
    /\ products = [p \in ObjectIds |->
                      [exists |-> p \in Products,
                       stock |-> IF p = "p1" THEN Whole(5)
                                 ELSE IF p = "p2" THEN Whole(2) ELSE Whole(0)]]
    /\ carts = [u \in Users |-> << >>]
    /\ pending = [s \in Slots |-> Idle]
    /\ resp = [op |-> "none", status |-> "OK", body |-> NoBody]
    /\ scn = 0

\* no request at the middleware, no seeding in progress, no browser client
ExtInit ==
    /\ gate = [sent |-> 0, handler |-> FALSE, user |-> "-"]
    /\ seed = << >>
    /\ client = << >>
    /\ net = << >>
    /\ checkout = << >>

Init == ServerInit /\ ExtInit

Catalog ==
    \/ \E x \in PutRequests : ProductPut(x[1], x[2])
    \/ \E p \in DeleteRequests : ProductDelete(p)
    \/ \E x \in CreateRequests : ProductCreate(x[1], x[2])

\* the ids that tokens carry
TokenIds == Users \cup {Ghost}

Next ==
    \/ \E u \in TokenIds : \E pid \in IdsOf(u), q \in QtyOf(u) :
          CartAdd(u, pid, q) /\ UNCHANGED ext
    \/ \E u \in TokenIds : \E pid \in IdsOf(u), q \in QtyOf(u) :
          CartUpdate(u, pid, q) /\ UNCHANGED ext
    \/ \E u \in TokenIds : \E pid \in IdsOf(u) : CartRemove(u, pid) /\ UNCHANGED ext
    \/ \E u \in TokenIds : CartClear(u) /\ UNCHANGED ext
    \/ \E u \in TokenIds : CartGet(u) /\ UNCHANGED ext
    \/ \E op \in {"add", "update"} : NoQuantity(op) /\ UNCHANGED ext
    \/ \E op \in CartOps : Unauthenticated(op) /\ UNCHANGED ext
    \/ \E op \in CartOps : StorageFailure(op) /\ UNCHANGED ext
    \/ \E u \in Users : \E pid \in IdsOf(u), q \in QtyOf(u) :
          /\ UNCHANGED ext
          /\ \/ PopulateFails(u, "add", AddToCart(carts[u], products, pid, q))
             \/ PopulateFails(u, "update", UpdateQuantity(carts[u], products, pid, q))
             \/ PopulateFails(u, "remove", RemoveFromCart(carts[u], products, pid))
    \/ Catalog /\ UNCHANGED ext

Spec == Init /\ [][Next]_vars

NextRace ==
    \/ \E u \in RaceUsers : \E pid \in RaceIds, q \in RaceQtyOf(u) :
          BeginAdd(u, pid, q) /\ UNCHANGED ext
    \/ \E pid \in RaceIds, q \in RaceQty : BeginUpdate("u1", pid, q) /\ UNCHANGED ext
    \/ \E pid \in RaceIds : BeginRemove("u1", pid) /\ UNCHANGED ext
    \/ \E u \in RaceUsers : BeginClear(u) /\ UNCHANGED ext
    \/ \E s \in Slots : UserSave(s) /\ UNCHANGED ext
    \/ \E x \in PutRequests : ProductPut(x[1], x[2]) /\ UNCHANGED ext

SpecRace == Init /\ [][NextRace]_vars

(* --------------- the middleware in front of the routes (SpecAuth) ------- *)

\* the token strings of the requests: three that generateAuthToken signed and
\* that have not expired, one that has expired, one signed with another key
Tokens == {"tok-u1", "tok-u2", "tok-u0", "expired-u1", "forged-u2"}

\* the payload a token carries: { id, isAdmin } as signed (u2 is the
\* administrator; the forged token claims to be u2's)
Payload(token) ==
    CASE token = "tok-u1" -> [id |-> "u1", isAdmin |-> FALSE]
      [] token = "tok-u2" -> [id |-> "u2", isAdmin |-> TRUE]
      [] token = "tok-u0" -> [id |-> Ghost, isAdmin |-> FALSE]
      [] token = "expired-u1" -> [id |-> "u1", isAdmin |-> FALSE]
      [] OTHER -> [id |-> "u2", isAdmin |-> TRUE]

\* jwt.verify(token, JWT_SECRET) returns the payload instead of throwing
Verify(token) == token \in {"tok-u1", "tok-u2", "tok-u0"}

Undefined == "undefined"

NoUser == [id |-> "-", isAdmin |-> FALSE]

\* an Authorization header as the words header.split(' ') gives; << >> is a
\* request without the header
Headers ==
    {<< >>, <<"Basic", "tok-u1">>, <<"Bearer">>, <<"Bearer", "", "tok-u1">>,
     <<"Bearerx", "tok-u1">>}
    \cup {<<"Bearer", t>> : t \in Tokens}

\* header.startsWith('Bearer')
StartsWithBearer(h) == h # << >> /\ h[1] \in {"Bearer", "Bearerx"}

\* protect whose catch block does not return
Protect_NoReturn(h) ==
    LET bearer == StartsWithBearer(h)
        token == IF bearer /\ Len(h) >= 2 THEN h[2] ELSE Undefined
        verified == bearer /\ Verify(token)
        caught == bearer /\ ~verified
        noToken == ~verified /\ token \in {Undefined, ""}
    IN  [next |-> verified,
         sent |-> (IF caught THEN 1 ELSE 0) + (IF noToken THEN 1 ELSE 0),
         user |-> IF verified THEN Payload(token) ELSE NoUser]

\* protect: whether it calls next(), how many responses it sends itself (all
\* of them 401), and the req.user it leaves
Protect(h) ==
    LET bearer == StartsWithBearer(h)
        token == IF bearer /\ Len(h) >= 2 THEN h[2] ELSE Undefined
        verified == bearer /\ Verify(token)
        caught == bearer /\ ~verified
        noToken == ~caught /\ token \in {Undefined, ""}
    IN  [next |-> verified,
         sent |-> (IF caught THEN 1 ELSE 0) + (IF noToken THEN 1 ELSE 0),
         user |-> IF verified THEN Payload(token) ELSE NoUser]

\* authorizeAdmin that lets every authenticated user through
AuthorizeAdmin_Any(user) == user.id # "-"

\* authorizeAdmin: req.user && req.user.isAdmin
AuthorizeAdmin(user) == user.id # "-" /\ user.isAdmin

\* the middleware answered, the handler was not called
Stopped(n, id) == gate' = [sent |-> n, handler |-> FALSE, user |-> id]

\* the handler was called and sent its one response
Passed(n, id) == gate' = [sent |-> n + 1, handler |-> TRUE, user |-> id]

\* the arguments of the requests that come through the middleware
GateIds == {"p1"}
GateQty == {Whole(2)}
ProductOps == {"productCreate", "productPut", "productDelete"}

\* a request to a cart route: protect, then the handler
GateCart(h, op, pid, q) ==
    LET g == Protect(h) IN
    IF g.next
    THEN /\ Passed(g.sent, g.user.id)
         /\ CASE op = "get" -> CartGet(g.user.id)
              [] op = "add" -> CartAdd(g.user.id, pid, q)
              [] op = "update" -> CartUpdate(g.user.id, pid, q)
              [] op = "remove" -> CartRemove(g.user.id, pid)
              [] OTHER -> CartClear(g.user.id)
    ELSE /\ Stopped(g.sent, "-")
         /\ Unauthenticated(op)

\* a request to a product route that writes: protect, authorizeAdmin, then
\* the handler
GateProduct(h, op) ==
    LET g == Protect(h) IN
    IF ~g.next
    THEN /\ Stopped(g.sent, "-")
         /\ Unauthenticated(op)
    ELSE IF ~AuthorizeAdmin(g.user)
    THEN /\ Stopped(g.sent + 1, g.user.id)
         /\ Refuse(op, "Forbidden")
    ELSE /\ Passed(g.sent, g.user.id)
         /\ CASE op = "productCreate" -> \E x \in CreateRequests : ProductCreate(x[1], x[2])
              [] op = "productPut" -> \E x \in PutRequests : ProductPut(x[1], x[2])
              [] OTHER -> \E p \in DeleteRequests : ProductDelete(p)

\* GET /api/products: no middleware, whatever the header
ProductList(h) ==
    /\ Passed(0, "-")
    /\ resp' = CatalogAnswer("productList", TRUE)
    /\ scn' = 0
    /\ UNCHANGED <<products, carts, pending>>

\* GET /api/products/:id: no middleware, whatever the header
ProductGet(h, pid) ==
    /\ Passed(0, "-")
    /\ resp' = IF pid \in BadIds
               THEN [op |-> "productGet", status |-> "Internal", body |-> NoBody]
               ELSE CatalogAnswer("productGet", products[CastId(pid)].exists)
    /\ scn' = 0
    /\ UNCHANGED <<products, carts, pending>>

rest == <<seed, client, net, checkout>>

NextAuth ==
    \/ \E h \in Headers, op \in CartOps : \E pid \in GateIds, q \in GateQty :
          GateCart(h, op, pid, q) /\ UNCHANGED rest
    \/ \E h \in Headers, op \in ProductOps : GateProduct(h, op) /\ UNCHANGED rest
    \/ \E h \in Headers : ProductList(h) /\ UNCHANGED rest
    \/ \E h \in Headers : \E pid \in IdStrings \cup BadIds :
          ProductGet(h, pid) /\ UNCHANGED rest

SpecAuth == Init /\ [][NextAuth]_vars

(* --------------------- seeding at start-up (SpecSeed) ------------------- *)

\* the two calls of seedProducts: the one at module level and the one in the
\* callback of app.listen
Invocations == {"module", "listen"}

\* the usernames of the documents a database can hold before start-up
SeedUsers == {"admin", "user"}
PriorUsers == SeedUsers \cup {"bob"}

\* the awaits of seedProducts in order, and how an invocation ends
SeedSteps == <<"deleteProducts", "deleteUsers", "insertProducts", "saveAdmin", "saveUser">>

\* the step after step i of an invocation
After(i) == IF i < Len(SeedSteps) THEN SeedSteps[i + 1] ELSE "done"

\* the invocation is at the await named step
At(inv, step) == seed # << >> /\ seed.pc[inv] = step

\* await Product.deleteMany({})
DeleteProducts(inv) ==
    /\ At(inv, "deleteProducts")
    /\ seed' = [seed EXCEPT !.pc[inv] = After(1), !.copies = 0, !.stale = FALSE]

\* await User.deleteMany({})
DeleteUsers(inv) ==
    /\ At(inv, "deleteUsers")
    /\ seed' = [seed EXCEPT !.pc[inv] = After(2), !.users = {}]

\* await Product.insertMany(mockProductsForSeeding): one new document for
\* each seed product, whatever the collection holds
InsertProducts(inv) ==
    /\ At(inv, "insertProducts")
    /\ seed' = [seed EXCEPT !.pc[inv] = After(3), !.copies = @ + 1]

\* await new User({username: name, ...}).save(): the unique index on username
\* rejects a second document of the name, and the catch block ends the
\* invocation
SaveUser(inv, i, name) ==
    /\ At(inv, SeedSteps[i])
    /\ seed' = IF name \in seed.users
               THEN [seed EXCEPT !.pc[inv] = "failed"]
               ELSE [seed EXCEPT !.pc[inv] = After(i), !.users = @ \cup {name}]

\* the database before start-up: with or without the seed products of an
\* earlier run, with or without a product created since, and any users
SeedInit ==
    /\ ServerInit
    /\ gate = [sent |-> 0, handler |-> FALSE, user |-> "-"]
    /\ client = << >> /\ net = << >> /\ checkout = << >>
    /\ \E n \in {0, 1}, s \in BOOLEAN, us \in SUBSET PriorUsers :
          seed = [pc |-> [inv \in Invocations |-> SeedSteps[1]],
                  copies |-> n, stale |-> s, users |-> us]

NextSeed ==
    \/ \E inv \in Invocations :
          DeleteProducts(inv) /\ UNCHANGED <<server, gate, client, net, checkout>>
    \/ \E inv \in Invocations :
          DeleteUsers(inv) /\ UNCHANGED <<server, gate, client, net, checkout>>
    \/ \E inv \in Invocations :
          InsertProducts(inv) /\ UNCHANGED <<server, gate, client, net, checkout>>
    \/ \E inv \in Invocations :
          SaveUser(inv, 4, "admin") /\ UNCHANGED <<server, gate, client, net, checkout>>
    \/ \E inv \in Invocations :
          SaveUser(inv, 5, "user") /\ UNCHANGED <<server, gate, client, net, checkout>>

SpecSeed == SeedInit /\ [][NextSeed]_vars

(* ---------------------- the browser client (SpecClient) ----------------- *)

\* the user the browser logs in as
ClientUser == "u1"

\* requests and responses of the client that are under way, at most
\* MaxRequests of them
NetSlots == 1 .. MaxRequests

FreeSlot ==
    [kind |-> "free", op |-> "-", pid |-> "-", q |-> 0, token |-> "-",
     status |-> "-", body |-> NoBody]

\* fetch(url, {headers: {'Authorization': `Bearer ${user.token}`}, body})
Request(op, pid, q, token) ==
    [kind |-> "request", op |-> op, pid |-> pid, q |-> q, token |-> token,
     status |-> "-", body |-> NoBody]

\* the answer to a request: res.status(...).json(...)
Response(r) ==
    [kind |-> "response", op |-> r.op, pid |-> "-", q |-> 0, token |-> "-",
     status |-> r.status, body |-> r.body]

\* the first of the slots that holds nothing, 0 when there is none
FreeIn(slots) ==
    IF \E s \in NetSlots : slots[s].kind = "free"
    THEN CHOOSE s \in NetSlots :
            slots[s].kind = "free" /\ \A t \in NetSlots : slots[t].kind = "free" => s <= t
    ELSE 0

FreeNet == FreeIn(net)

\* user && user.token
HasSession(c) == c.user # "null" /\ c.token # ""

\* data.map(item => ({...item.productId, quantity: item.quantity,
\* id: item.productId._id})): reading _id of a line whose populated product
\* is null throws
MapThrows(body) == \E i \in DOMAIN body : body[i].product = "null"

CartItems(body) ==
    [i \in DOMAIN body |-> [id |-> body[i].product, quantity |-> body[i].quantity]]

\* the cart functions the context gives to the pages, with their arguments
ClientIds == {"p1"}
ClientCalls ==
    {[op |-> "add", pid |-> p, q |-> Whole(1)] : p \in ClientIds}
    \cup {[op |-> "update", pid |-> "p1", q |-> Whole(2)],
          [op |-> "remove", pid |-> "p1", q |-> 0],
          [op |-> "clear", pid |-> "-", q |-> 0]}

\* fetchCartItems, the effect that runs when user has changed: the slots after
\* it, given the client after the change
FetchCartItems(c, slots) ==
    IF HasSession(c)
    THEN [slots EXCEPT ![FreeIn(slots)] = Request("get", "-", 0, c.token)]
    ELSE slots

\* addToCart, updateCartQuantity, removeFromCart, clearCart up to their fetch:
\* without a user or a token they navigate to the login page and return
ClientCall(call) ==
    /\ client # << >>
    /\ IF HasSession(client)
       THEN /\ FreeNet # 0
            /\ net' = [net EXCEPT ![FreeNet] = Request(call.op, call.pid, call.q, client.token)]
            /\ UNCHANGED client
       ELSE /\ client' = [client EXCEPT !.page = "login"]
            /\ UNCHANGED net
    /\ UNCHANGED <<server, gate, seed, checkout>>

\* login with the right password: setUser(data.user), navigateTo('home'), and
\* the effect on user fetches the cart
Login ==
    /\ client # << >> /\ client.user = "null" /\ FreeNet # 0
    /\ client' = [client EXCEPT !.user = ClientUser, !.token = "tok-u1", !.page = "home"]
    /\ net' = FetchCartItems(client', net)
    /\ UNCHANGED <<server, gate, seed, checkout>>

\* logout(): setUser(null); setCartItems([]); navigateTo('home')
LoggedOut(c) ==
    [c EXCEPT !.user = "null", !.token = "", !.cartItems = << >>, !.page = "home"]

\* the user clicks Logout
Logout ==
    /\ client # << >> /\ client.user # "null"
    /\ client' = LoggedOut(client)
    /\ UNCHANGED <<server, gate, seed, net, checkout>>

\* an hour has passed since the token was signed
TokenExpires ==
    /\ client # << >> /\ client.token = "tok-u1"
    /\ client' = [client EXCEPT !.token = "expired-u1"]
    /\ UNCHANGED <<server, gate, seed, net, checkout>>

\* the server takes a request of the client: protect, then the handler, one
\* request at a time
ServerTakes(s) ==
    /\ net # << >> /\ net[s].kind = "request"
    /\ LET m == net[s]
           g == Protect(<<"Bearer", m.token>>) IN
       /\ IF g.next
          THEN /\ Passed(g.sent, g.user.id)
               /\ CASE m.op = "get" -> CartGet(g.user.id)
                    [] m.op = "add" -> CartAdd(g.user.id, m.pid, m.q)
                    [] m.op = "update" -> CartUpdate(g.user.id, m.pid, m.q)
                    [] m.op = "remove" -> CartRemove(g.user.id, m.pid)
                    [] OTHER -> CartClear(g.user.id)
          ELSE /\ Stopped(g.sent, "-")
               /\ Unauthenticated(m.op)
       /\ net' = [net EXCEPT ![s] = Response(resp')]
    /\ UNCHANGED <<seed, client, checkout>>

\* the client after the response m has come: the code after the await of
\* fetch in fetchCartItems and in the four cart functions
Received(c, m) ==
    IF m.status # "OK"
    THEN IF m.op = "get" /\ m.status \in {"Unauthenticated", "Forbidden"}
         THEN LoggedOut(c)
         ELSE c
    ELSE IF m.op = "clear" THEN [c EXCEPT !.cartItems = << >>]
    ELSE IF MapThrows(m.body) THEN c
    ELSE [c EXCEPT !.cartItems = CartItems(m.body)]

\* a response reaches the client, in whatever order the responses come
ClientReceives(s) ==
    /\ net # << >> /\ net[s].kind = "response"
    /\ client' = Received(client, net[s])
    /\ net' = [net EXCEPT ![s] = FreeSlot]
    /\ UNCHANGED <<server, gate, seed, checkout>>

\* an administrator, in a session of their own, deletes a product
AdminDeletes(p) ==
    /\ products[p].exists
    /\ ProductDelete(p)
    /\ UNCHANGED <<gate, seed, client, net, checkout>>

\* the application is loaded: user comes from localStorage (none, one with a
\* token that is still good, with one that has expired, or with none),
\* cartItems is empty, and the effect on user has run; the server holds what
\* earlier sessions left
LoadedClients ==
    {c \in [user : {"null", ClientUser}, token : {"", "tok-u1", "expired-u1"},
            cartItems : {<< >>}, page : {"home"}] :
        c.user = "null" => c.token = ""}

ClientInit ==
    /\ products = [p \in ObjectIds |->
                      [exists |-> p \in Products,
                       stock |-> IF p = "p1" THEN Whole(2) ELSE Whole(1)]]
    /\ \E cart \in {<< >>, <<[productId |-> "p2", quantity |-> Whole(1)]>>} :
          carts = [u \in Users |-> IF u = ClientUser THEN cart ELSE << >>]
    /\ pending = [s \in Slots |-> Idle]
    /\ resp = [op |-> "none", status |-> "OK", body |-> NoBody]
    /\ scn = 0
    /\ gate = [sent |-> 0, handler |-> FALSE, user |-> "-"]
    /\ seed = << >> /\ checkout = << >>
    /\ client \in LoadedClients
    /\ net = FetchCartItems(client, [s \in NetSlots |-> FreeSlot])

NextClient ==
    \/ \E call \in ClientCalls : ClientCall(call)
    \/ Login
    \/ Logout
    \/ TokenExpires
    \/ \E s \in NetSlots : ServerTakes(s)
    \/ \E s \in NetSlots : ClientReceives(s)
    \/ \E p \in DeleteRequests : AdminDeletes(p)

SpecClient == ClientInit /\ [][NextClient]_vars

(* ------------------- the checkout page (SpecCheckout) ------------------- *)

\* CheckoutPage as useState leaves it when it is mounted: step 1, no address,
\* no payment method, not loading
FreshCheckout(mounted, timer) ==
    [mounted |-> mounted, step |-> 1, shippingAddress |-> "null",
     paymentMethod |-> "null", loading |-> FALSE, timer |-> timer]

\* what PaymentMethodSelection holds when its form is submitted: '' when no
\* method was chosen
PaymentChoices == {"", "card", "paypal"}

\* the step the page shows its component for, while it is not loading
Showing(n) == checkout # << >> /\ checkout.mounted /\ ~checkout.loading /\ checkout.step = n

\* 'Proceed to Checkout' on the cart page, disabled while the cart items
\* count nothing
OpenCheckout ==
    /\ checkout # << >> /\ ~checkout.mounted
    /\ client.page \in {"cart", "home"}
    /\ client.cartItems # << >>
    /\ client' = [client EXCEPT !.page = "checkout"]
    /\ checkout' = FreshCheckout(TRUE, checkout.timer)
    /\ UNCHANGED <<server, gate, seed, net>>

\* the user goes to another page: the CheckoutPage is unmounted, a timer it
\* started is not cleared
LeaveCheckout ==
    /\ checkout # << >> /\ checkout.mounted
    /\ client' = [client EXCEPT !.page = "home"]
    /\ checkout' = FreshCheckout(FALSE, checkout.timer)
    /\ UNCHANGED <<server, gate, seed, net>>

\* ShippingAddressForm.handleSubmit and handleShippingSubmit: with a required
\* field empty it only shows a toast
SubmitShipping(filled) ==
    /\ Showing(1)
    /\ checkout' = IF filled
                   THEN [checkout EXCEPT !.shippingAddress = "address", !.step = 2]
                   ELSE checkout
    /\ UNCHANGED <<server, gate, seed, client, net>>

\* handleSubmit of PaymentMethodSelection that hands on whatever it holds
SubmitPayment_Unchecked(method) ==
    /\ Showing(2)
    /\ checkout' = [checkout EXCEPT !.paymentMethod = method, !.step = 3]
    /\ UNCHANGED <<server, gate, seed, client, net>>

\* PaymentMethodSelection.handleSubmit and handlePaymentSubmit: with no
\* method chosen it only shows a toast
SubmitPayment(method) ==
    /\ Showing(2)
    /\ checkout' = IF method # ""
                   THEN [checkout EXCEPT !.paymentMethod = method, !.step = 3]
                   ELSE checkout
    /\ UNCHANGED <<server, gate, seed, client, net>>

\* onBack of steps 2 and 3
Back ==
    /\ Showing(2) \/ Showing(3)
    /\ checkout' = [checkout EXCEPT !.step = @ - 1]
    /\ UNCHANGED <<server, gate, seed, client, net>>

\* handlePlaceOrder up to its setTimeout
PlaceOrder ==
    /\ Showing(3)
    /\ checkout' = [checkout EXCEPT !.loading = TRUE, !.timer = TRUE]
    /\ UNCHANGED <<server, gate, seed, client, net>>

\* the callback of handlePlaceOrder's timer: clearCart() is called and not
\* awaited, then navigateTo('order-confirmation') whatever clearCart did
OrderPlaced ==
    /\ checkout # << >> /\ checkout.timer
    /\ IF HasSession(client)
       THEN /\ FreeNet # 0
            /\ net' = [net EXCEPT ![FreeNet] = Request("clear", "-", 0, client.token)]
       ELSE UNCHANGED net
    /\ client' = [client EXCEPT !.page = "order-confirmation"]
    /\ checkout' = FreshCheckout(FALSE, FALSE)
    /\ UNCHANGED <<server, gate, seed>>

\* a user with a token that is still good is on the cart page, the stored
\* cart is empty and so are the cart items
CheckoutInit ==
    /\ ServerInit
    /\ gate = [sent |-> 0, handler |-> FALSE, user |-> "-"]
    /\ seed = << >>
    /\ net = [s \in NetSlots |-> FreeSlot]
    /\ checkout = FreshCheckout(FALSE, FALSE)
    /\ client = [user |-> ClientUser, token |-> "tok-u1", cartItems |-> << >>, page |-> "cart"]

NextCheckout ==
    \/ OpenCheckout
    \/ LeaveCheckout
    \/ \E filled \in BOOLEAN : SubmitShipping(filled)
    \/ \E method \in PaymentChoices : SubmitPayment(method)
    \/ Back
    \/ PlaceOrder
    \/ OrderPlaced
    \/ \E call \in ClientCalls :
          call.op = "add" /\ client.page \in {"cart", "home"} /\ ClientCall(call)
    \/ TokenExpires
    \/ \E s \in NetSlots : ServerTakes(s)
    \/ \E s \in NetSlots : ClientReceives(s)

SpecCheckout == CheckoutInit /\ [][NextCheckout]_vars

(* ------------------------------- claims -------------------------------- *)

\* the quantities of the specification's data model: positive integers
PosQty == {q \in ReqQty : q > 0 /\ IsWhole(q)}

\* the lines of a cart that are for product p, in order
LinesOf(cart, p) == SelectSeq(cart, LAMBDA l : l.productId = p)

Line(p, q) == [productId |-> p, quantity |-> q]

\* C1: AddToCart(u, p, q) answers InsufficientStock whenever the quantity of
\* an existing line for p plus q (q alone when there is no line for p) exceeds
\* p.stock, and then the stored carts are what they were.
C1_AddInsufficientStock ==
    [][\A u \in Users, pid \in IdStrings, q \in PosQty :
         LET p == CastId(pid) IN
         (/\ resp'.op = "add"
          /\ products[p].exists
          /\ CartAdd(u, pid, q)
          /\ IF LinesOf(carts[u], p) # << >>
             THEN \E i \in DOMAIN carts[u] :
                     /\ carts[u][i].productId = p
                     /\ carts[u][i].quantity + q > products[p].stock
             ELSE q > products[p].stock)
         => (resp'.status = "InsufficientStock" /\ carts' = carts)]_vars

\* C2: AddToCart is additive: after AddToCart(u, p, q1) on a cart without p,
\* AddToCart(u, p, q2) with q1 + q2 <= p.stock leaves exactly one line for p,
\* with quantity q1 + q2.
C2_AddAdditive ==
    [][\A u \in Users, pid1 \in IdStrings, pid2 \in IdStrings,
          q1 \in PosQty, q2 \in PosQty :
         LET p == CastId(pid1) IN
         (/\ resp'.op = "add"
          /\ CastId(pid2) = p
          /\ LinesOf(carts[u], p) = << >>
          /\ products[p].exists
          /\ q1 + q2 <= products[p].stock
          /\ CartAdd(u, pid1, q1))
         => LinesOf(AddToCart(carts'[u], products', pid2, q2).cart, p)
               = <<Line(p, q1 + q2)>>]_vars

\* C3: for an existing product p and 0 < q <= p.stock, AddToCart(u, p, q) on
\* an empty cart succeeds and the stored cart is then exactly <<(p, q)>>.
C3_AddOnEmptyCart ==
    [][\A u \in Users, pid \in IdStrings, q \in PosQty :
         (/\ resp'.op = "add"
          /\ carts[u] = << >>
          /\ products[CastId(pid)].exists
          /\ q <= products[CastId(pid)].stock
          /\ CartAdd(u, pid, q))
         => (/\ resp'.status = "OK"
             /\ carts'[u] = <<Line(CastId(pid), q)>>)]_vars

\* an add was the last request served, it succeeded, and the stored carts
\* show that it was add(p2, 2) on u2's empty cart
C3_Witness ==
    /\ resp.op = "add" /\ resp.status = "OK"
    /\ carts["u1"] = << >>
    /\ carts["u2"] = <<Line("p2", Whole(2))>>

\* the lines a save of an add or an update creates or updates
SavedIdxs(delta) ==
    IF delta.kind = "push" THEN {Len(delta.cart)}
    ELSE IF delta.kind = "setq" THEN delta.idxs
    ELSE {}

\* C4: when an add or an update commits a created or updated line for p, the
\* line's quantity is at most p.stock as stored at that moment.
C4_StockAtCommit ==
    [][\A s \in Slots :
         (/\ pending[s].op \in {"add", "update"}
          /\ resp'.status = "OK"
          /\ UserSave(s))
         => \A i \in SavedIdxs(pending[s].delta) :
               LET l == pending[s].delta.cart[i] IN
               /\ products[l.productId].exists
               /\ l.quantity <= products[l.productId].stock]_vars

\* C5: with a line for p in u's cart and 0 < n, UpdateQuantity(u, p, n)
\* answers InsufficientStock and leaves the cart as it was if n > p.stock, and
\* otherwise sets that line's quantity to exactly n.
C5_UpdateAbsolute ==
    [][\A u \in Users, pid \in IdStrings, n \in PosQty :
         LET p == CastId(pid) IN
         (/\ resp'.op = "update"
          /\ LinesOf(carts[u], p) # << >>
          /\ products[p].exists
          /\ CartUpdate(u, pid, n))
         => IF n > products[p].stock
            THEN resp'.status = "InsufficientStock" /\ carts' = carts
            ELSE /\ resp'.status = "OK"
                 /\ \E i \in DOMAIN carts[u] :
                       /\ carts[u][i].productId = p
                       /\ carts'[u] = [carts[u] EXCEPT ![i].quantity = n]]_vars

\* C6: whenever u's cart holds a line for p, UpdateQuantity(u, p, 0) succeeds
\* and removes it: GetCart(u) no longer lists p, and the cart is the one
\* RemoveFromCart(u, p) would leave. Stated for the carts that hold exactly
\* one line for p and for p's own id string.
C6_UpdateZeroRemoves ==
    [][\A u \in Users, p \in Products :
         (/\ resp'.op = "update"
          /\ Len(LinesOf(carts[u], p)) = 1
          /\ CartUpdate(u, p, 0))
         => (/\ resp'.status = "OK"
             /\ LinesOf(carts'[u], p) = << >>
             /\ \A i \in DOMAIN GetCart(carts'[u], products').resp.body :
                   GetCart(carts'[u], products').resp.body[i].product # p
             /\ carts'[u] = RemoveFromCart(carts[u], products, p).cart)]_vars

\* C7: UpdateQuantity(u, p, n), n >= 0, on a cart with no line for p answers
\* NotFound and leaves the carts as they were; it creates no line.
C7_UpdateMissingLine ==
    [][resp'.op = "update" =>
         \A u \in Users : \A pid \in IdsOf(u) \cap IdStrings, n \in QtyOf(u) :
            (/\ n >= 0
             /\ LinesOf(carts[u], CastId(pid)) = << >>
             /\ CartUpdate(u, pid, n))
            => (resp'.status = "NotFound" /\ carts' = carts)]_vars

\* an update was the last request served and answered NotFound, with no line
\* in any cart
C7_Witness ==
    /\ resp.op = "update" /\ resp.status = "NotFound"
    /\ \A u \in Users : carts[u] = << >>
    /\ \A p \in Products : products[p].exists

\* C8: RemoveFromCart(u, p) on a cart without a line for p succeeds and leaves
\* the cart as it was, and removing twice leaves the cart that removing once
\* leaves.
C8_RemoveIdempotent ==
    [][\A u \in Users, pid \in IdStrings :
         (resp'.op = "remove" /\ CartRemove(u, pid))
         => (/\ resp'.status = "OK"
             /\ LinesOf(carts[u], CastId(pid)) = << >> => carts' = carts
             /\ RemoveFromCart(carts'[u], products', pid).resp.status = "OK"
             /\ RemoveFromCart(carts'[u], products', pid).cart = carts'[u])]_vars

\* a remove was the last request served, from a cart that keeps a line
C8_Witness ==
    /\ resp.op = "remove" /\ resp.status = "OK"
    /\ resp.body = <<[product |-> "p2", quantity |-> Whole(2)]>>

\* C9: ClearCart(u) succeeds on every cart, and GetCart(u) right after it
\* returns the empty list.
C9_ClearThenGet ==
    [][\A u \in Users :
         (resp'.op = "clear" /\ CartClear(u))
         => (/\ resp'.status = "OK"
             /\ GetCart(carts'[u], products').resp.status = "OK"
             /\ GetCart(carts'[u], products').resp.body = << >>)]_vars

\* a clear was the last request served, and it emptied one of two carts
C9_Witness ==
    /\ resp.op = "clear" /\ resp.status = "OK"
    /\ carts["u1"] = << >>
    /\ carts["u2"] # << >>

\* C10: with 5 of p1 in stock and u1's cart empty, add(p1,3), add(p1,3),
\* update(p1,5), update(p1,0), one after the other, leave <<(p1,3)>>, then
\* InsufficientStock with <<(p1,3)>> kept, then <<(p1,5)>>, then the empty cart.
C10_Scenario ==
    /\ scn = 1 => resp.status = "OK" /\ carts["u1"] = <<Line("p1", Whole(3))>>
    /\ scn = 2 => resp.status = "InsufficientStock"
                  /\ carts["u1"] = <<Line("p1", Whole(3))>>
    /\ scn = 3 => resp.status = "OK" /\ carts["u1"] = <<Line("p1", Whole(5))>>
    /\ scn = 4 => resp.status = "OK" /\ carts["u1"] = << >>

\* the scripted client has been served its four requests
C10_Witness == scn = 4

\* C11: a cart operation that answers with an error (InvalidArgument,
\* NotFound, InsufficientStock, Unauthenticated, Internal) leaves the stored
\* cart of every user as it was before the request.
C11_FailedLeavesCarts ==
    [][(resp'.op \in CartOps /\ resp'.status # "OK") => carts' = carts]_vars

\* C12: in every stored state every line of every cart has a quantity that is
\* an integer and at least 1.
C12_PositiveIntegerQty ==
    \A u \in Users : \A i \in DOMAIN carts[u] :
        IsWhole(carts[u][i].quantity) /\ carts[u][i].quantity >= Whole(1)

\* C13: in every stored state each cart holds at most one line per product.
C13_UniqueByProduct ==
    \A u \in Users : \A i, j \in DOMAIN carts[u] :
        carts[u][i].productId = carts[u][j].productId => i = j

\* the request in slot s ends with this step: its save has run
Finishes(s) == pending[s].op # "idle" /\ pending'[s].op = "idle"

\* C14: a cart request of user u, at each of its steps and whatever other
\* requests it overlaps with, leaves the stored cart of every other user as it
\* was: a step that is not the save of a request changes no cart, and the
\* save of a request of u changes no cart but u's.
C14_CrossUserIndependence ==
    [][/\ (\A s \in Slots : ~Finishes(s)) => carts' = carts
       /\ \A s \in Slots :
             Finishes(s)
             => \A v \in Users \ {pending[s].user} : carts'[v] = carts[v]]_vars

\* both users hold a line and a request of each is between its reads and its
\* save
C14_Witness ==
    /\ carts["u1"] # << >> /\ carts["u2"] # << >>
    /\ \E s, t \in Slots : pending[s].user = "u1" /\ pending[t].user = "u2"

\* C15: no cart request, whether it succeeds or fails, changes a product: the
\* stock values are the same before and after every get, add, update, remove
\* and clear.
C15_CartLeavesStock ==
    [][resp'.op \in CartOps => products' = products]_vars

\* an add was the last request served, it put all of p1's stock into u1's
\* cart, and the stock is what it was
C15_Witness ==
    /\ resp.op = "add" /\ resp.status = "OK"
    /\ carts["u1"] = <<Line("p1", Whole(5))>>
    /\ products["p1"].stock = Whole(5)

C17_NoReservation ==
    [][\A u \in Users, p \in Products, q \in PosQty :
         (/\ resp'.op = "add"
          /\ products[p].exists
          /\ \A i \in DOMAIN carts[u] :
                carts[u][i].productId = p
                => carts[u][i].quantity + q <= products[p].stock
          /\ q <= products[p].stock
          /\ \E v \in Users \ {u} :
                Held(carts[v], p) + Held(carts[u], p) + q > products[p].stock
          /\ CartAdd(u, p, q))
         => (/\ resp'.status = "OK"
             /\ Held(carts'[u], p) >= Held(carts[u], p) + q)]_vars

\* both users hold one line for p2, each within p2's stock, the two together
\* above it, and the last request served was the add that made it so
C17_Witness ==
    /\ resp.op = "add" /\ resp.status = "OK"
    /\ products["p2"].exists
    /\ \A u \in Users :
          /\ Len(LinesOf(carts[u], "p2")) = 1
          /\ Held(carts[u], "p2") <= products["p2"].stock
    /\ Held(carts["u1"], "p2") + Held(carts["u2"], "p2") > products["p2"].stock

\* C18: an add whose quantity is missing or <= 0, and an update whose quantity
\* is missing or < 0, is answered InvalidArgument, whether or not the token's
\* user and the product exist, and leaves the carts and the products as they
\* were.
C18_InvalidQuantity ==
    [][(/\ resp'.op \in {"add", "update"}
        /\ \/ \E op \in {"add", "update"} : NoQuantity(op)
           \/ \E u \in TokenIds : \E pid \in IdsOf(u), q \in QtyOf(u) :
                 \/ resp'.op = "add" /\ q <= 0 /\ CartAdd(u, pid, q)
                 \/ resp'.op = "update" /\ q < 0 /\ CartUpdate(u, pid, q))
       => (/\ resp'.status = "InvalidArgument"
           /\ carts' = carts
           /\ products' = products)]_vars

\* an add was answered InvalidArgument after p2 was deleted, with lines in
\* both carts
C18_Witness ==
    /\ resp.op = "add" /\ resp.status = "InvalidArgument"
    /\ ~products["p2"].exists
    /\ \A u \in Users : carts[u] # << >>

\* the id string is the id of a product that is in the store
Resolves(pid) == pid \in IdStrings /\ products[CastId(pid)].exists

\* C19: an add of q > 0 of an id that does not resolve to a product in the
\* store (the product never existed or was deleted) is answered NotFound and
\* leaves the carts as they were.
C19_AddUnknownProduct ==
    [][\A u \in Users, pid \in IdStrings \cup BadIds, q \in ReqQty :
         (/\ resp'.op = "add"
          /\ q > 0
          /\ ~Resolves(pid)
          /\ CartAdd(u, pid, q))
         => (resp'.status = "NotFound" /\ carts' = carts)]_vars

C24_UpdateDeletedProduct ==
    [][/\ \A u \in Users, pid \in IdStrings, n \in ReqQty :
             (/\ resp'.op = "update"
              /\ n >= 0
              /\ LinesOf(carts[u], CastId(pid)) # << >>
              /\ ~products[CastId(pid)].exists
              /\ CartUpdate(u, pid, n))
             => (resp'.status = "NotFound" /\ carts' = carts)
       /\ \A u \in Users, p \in Products :
             (/\ ~products[p].exists
              /\ Len(LinesOf(carts'[u], p)) < Len(LinesOf(carts[u], p)))
             => resp'.op \in {"remove", "clear"}]_vars

\* an update was answered NotFound while both carts hold a line for p2,
\* which has been deleted
C24_Witness ==
    /\ resp.op = "update" /\ resp.status = "NotFound"
    /\ ~products["p2"].exists
    /\ \A u \in Users : LinesOf(carts[u], "p2") # << >>

CatalogOps == {"productCreate", "productPut", "productDelete"}

\* C25: a catalog request (create, update, delete of a product) leaves every
\* stored cart as it was, also when it takes a product's stock below the
\* quantity of a line or deletes the product of a line.
C25_CatalogLeavesCarts ==
    [][resp'.op \in CatalogOps => carts' = carts]_vars

\* the last request served set p1's stock to 2 while u1's cart holds 5 of p1
\* and a line for p2, which has been deleted
C25_Witness ==
    /\ resp.op = "productPut" /\ resp.status = "OK"
    /\ products["p1"].stock = Whole(2)
    /\ ~products["p2"].exists
    /\ carts["u1"] = <<Line("p1", Whole(5)), Line("p2", Whole(2))>>

\* the lines of a cart that are not for product p, in order
Others(cart, p) == SelectSeq(cart, LAMBDA l : l.productId # p)

\* C28: a successful add, update or remove for product p leaves every line
\* that is not for p with its product, its quantity and its place among the
\* others; after an add or an update to n > 0 every line is where it was, and
\* an add of a product the cart has no line for appends the new line.
C28_OnlyLineOfP ==
    [][\A u \in Users : \A pid \in IdsOf(u), q \in QtyOf(u) :
         LET p == CastId(pid) IN
         resp'.status = "OK" /\ pid \in IdStrings =>
         /\ (resp'.op = "add" /\ CartAdd(u, pid, q))
            => (/\ Others(carts'[u], p) = Others(carts[u], p)
                /\ \A i \in DOMAIN carts[u] :
                      carts'[u][i].productId = carts[u][i].productId
                /\ LinesOf(carts[u], p) = << >>
                   => carts'[u] = Append(carts[u], Line(p, q)))
         /\ (resp'.op = "update" /\ CartUpdate(u, pid, q))
            => (/\ Others(carts'[u], p) = Others(carts[u], p)
                /\ q > 0 => /\ Len(carts'[u]) = Len(carts[u])
                            /\ \A i \in DOMAIN carts[u] :
                                  carts'[u][i].productId = carts[u][i].productId)
         /\ (resp'.op = "remove" /\ CartRemove(u, pid))
            => Others(carts'[u], p) = Others(carts[u], p)]_vars

\* an add was the last request served and u1's cart holds a line for p2
\* followed by a line for p1
C28_Witness ==
    /\ resp.op = "add" /\ resp.status = "OK"
    /\ carts["u1"] = <<Line("p2", Whole(2)), Line("p1", Whole(5))>>

\* the token of a header: the second word of it, when there is one
TokenOf(h) == IF Len(h) >= 2 THEN h[2] ELSE Undefined

\* the header starts with 'Bearer' and its token passes jwt.verify
ValidHeader(h) == StartsWithBearer(h) /\ Len(h) >= 2 /\ Verify(h[2])

C27_AdminOnlyWrites ==
    [][/\ \A h \in Headers, op \in ProductOps :
            GateProduct(h, op) =>
              /\ ~ValidHeader(h)
                 => resp'.status = "Unauthenticated" /\ products' = products
              /\ (ValidHeader(h) /\ ~Payload(TokenOf(h)).isAdmin)
                 => resp'.status = "Forbidden" /\ products' = products
       /\ products' # products
            => /\ gate'.handler
               /\ \E t \in Tokens :
                     Verify(t) /\ Payload(t).isAdmin /\ gate'.user = Payload(t).id
       /\ \A h \in Headers :
            /\ ProductList(h) => gate'.handler /\ resp'.status = "OK"
            /\ \A pid \in IdStrings :
                 ProductGet(h, pid)
                   => gate'.handler /\ resp'.status \in {"OK", "NotFound"}]_vars

\* a delete by a user who is no administrator was refused after an
\* administrator had created a product
C27_Witness ==
    /\ resp.op = "productDelete" /\ resp.status = "Forbidden"
    /\ ~gate.handler /\ gate.user = "u1"
    /\ products["p4"].exists /\ products["p2"].exists

\* every invocation of seedProducts has finished
SeedingOver == seed # << >> /\ \A inv \in Invocations : seed.pc[inv] \in {"done", "failed"}

\* C26: once both invocations of seedProducts have finished, the products
\* collection holds each seed product exactly once and nothing else, and the
\* users collection holds exactly admin and user
C26_SeedCleanSlate ==
    SeedingOver =>
        /\ seed.copies = 1 /\ ~seed.stale
        /\ seed.users = SeedUsers

\* the client holds a user with a token and none of its requests or
\* responses is under way
Settled ==
    /\ client # << >> /\ HasSession(client)
    /\ \A s \in NetSlots : net[s].kind = "free"

\* the products and quantities of a stored cart, as cartItems would list them
ViewOf(cart) ==
    [i \in DOMAIN cart |-> [id |-> cart[i].productId, quantity |-> cart[i].quantity]]

\* C22: whenever a logged-in client has no cart request in flight, its
\* cartItems lists exactly the products and quantities of the user's stored
\* cart
C22_ViewIsServerCart ==
    Settled => client.cartItems = ViewOf(carts[ClientUser])

\* C30: a client that holds no user shows no cart items
C30_NoCartWhenLoggedOut ==
    (client # << >> /\ client.user = "null") => client.cartItems = << >>

\* C23: when the client shows the order-confirmation page and every request
\* it sent has been answered, the user's stored cart is empty
C23_CartClearedOnCheckout ==
    (/\ client # << >> /\ client.page = "order-confirmation"
     /\ \A s \in NetSlots : net[s].kind = "free")
    => carts[ClientUser] = << >>

\* C29: checkoutStep is 1, 2 or 3 and is 1 when the page is mounted; it goes
\* from 1 to 2 only by a shipping form with its required fields, from 2 to 3
\* only by a payment form with a method chosen, back only from 3 to 2 and
\* from 2 to 1, and in no other way; at step 3 shippingAddress and
\* paymentMethod are set, and Place Order is triggered from step 3 only
C29_CheckoutSteps ==
    /\ [](checkout.mounted =>
            /\ checkout.step \in {1, 2, 3}
            /\ checkout.step = 3 =>
                 /\ checkout.shippingAddress # "null"
                 /\ checkout.paymentMethod \notin {"null", ""})
    /\ [][/\ (~checkout.mounted /\ checkout'.mounted) => checkout'.step = 1
          /\ (checkout.mounted /\ checkout'.mounted /\ checkout'.step # checkout.step)
             => \/ checkout.step = 1 /\ checkout'.step = 2 /\ SubmitShipping(TRUE)
                \/ /\ checkout.step = 2 /\ checkout'.step = 3
                   /\ \E method \in PaymentChoices \ {""} : SubmitPayment(method)
                \/ checkout.step = 3 /\ checkout'.step = 2 /\ Back
                \/ checkout.step = 2 /\ checkout'.step = 1 /\ Back
          /\ (~checkout.timer /\ checkout'.timer) => checkout.step = 3]_vars

\* Place Order was clicked at step 3 with PayPal chosen
C29_Witness ==
    /\ checkout.mounted /\ checkout.step = 3 /\ checkout.loading
    /\ checkout.shippingAddress = "address" /\ checkout.paymentMethod = "paypal"

====
